---- MODULE Spec2Model ----
(***************************************************************************)
(* hitsgame: card-sheet layout engine.                                     *)
(*                                                                         *)
(*  Spec       the run of main(): pagination of the sorted tracks          *)
(*             (main.py) followed by the render / convert / poll / merge   *)
(*             driver (generate_cards in src/cards_generator.py).          *)
(*  TextSpec   line_break_text applied to bounded input strings.           *)
(*  RenderSpec Table.render_svg applied to bounded tables.                 *)
(***************************************************************************)
EXTENDS Integers, Sequences, FiniteSets, TLC

VARIABLES
    pc,           \* position of the run
    tracks,       \* the sorted input tracks
    ti,           \* index of the next track of the pagination loop
    heap,         \* the cell lists: heap[id] is the list object number id
    table,        \* the page under construction (id of its cell list)
    tables,       \* the page list (ids of cell lists)
    pdf_inputs,   \* drawing file names, in the order they were extended
    pdf_outputs,  \* document file names, in the order they were extended
    ri,           \* index of the next page of the render loop
    svg,          \* scratch directory: drawing file name -> content
    pdf,          \* scratch directory: document file name -> origin
    pending,      \* documents a returned converter has still to flush
    ci,           \* index of the next pair of the conversion loop
    attempt,      \* iterations of the polling loop done for the current file
    converted,    \* converter invocations so far, in order
    observed,     \* documents the final existence test has seen
    settled,      \* the settle delay has elapsed
    mi,           \* index of the next document of the merge loop
    merged,       \* documents appended to the merger, in order
    final_pdf,    \* the final document: <<>> or <<what was written>>
    temp_removed, \* the scratch directory was removed by the cleanup
    warned,       \* the cleanup warning was printed
    exit_status,  \* Running, 0, or the non-zero status of an abort
    s,            \* line_break_text: the argument
    words,        \* line_break_text: s.split(" ")
    top,          \* line_break_text: best first line so far
    bot,          \* line_break_text: best second line so far
    diff,         \* line_break_text: best imbalance so far
    examined,     \* line_break_text: split indices examined, in order
    lines,        \* line_break_text: the returned list
    lpc,          \* line_break_text: "call" or "returned"
    width,        \* render_svg: self.width
    height,       \* render_svg: self.height
    ncells,       \* render_svg: len(self.cells)
    mode,         \* render_svg: "title" or "qr"
    grid,         \* render_svg: config.grid
    crop_marks,   \* render_svg: config.crop_marks
    drawing,      \* render_svg: the returned drawing
    rpc           \* render_svg: "call" or "returned"

pipeVars == <<pc, tracks, ti, heap, table, tables, pdf_inputs, pdf_outputs, ri,
              svg, pdf, pending, ci, attempt, converted, observed, settled,
              mi, merged, final_pdf, temp_removed, warned, exit_status>>
textVars == <<s, words, top, bot, diff, examined, lines, lpc>>
renderVars == <<width, height, ncells, mode, grid, crop_marks, drawing, rpc>>
vars == <<pipeVars, textVars, renderVars>>

----------------------------------------------------------------------------
(* Bounds of the model *)

MaxTracks == 25
MaxStale == 1
MaxWords == 4
MaxWidth == 3
MaxHeight == 4

(* Program constants *)

DefaultWidth == 3
DefaultHeight == 4
PollAttempts_more == 20 + 1

PollAttempts == 20
LineThreshold == 24

----------------------------------------------------------------------------
(* Table (src/cards_generator.py) *)

\* A page is a Table whose cells field refers to a list object; the model
\* keeps the list objects in heap and a Table is the id of its list.

Capacity == DefaultWidth * DefaultHeight

Table_new_shared(h) == 1

Table_new(h) == Len(h) + 1

is_empty_never(cells) == FALSE

is_empty(cells) == Len(cells) = 0

is_full_strict(cells) == Len(cells) > Capacity

is_full(cells) == Len(cells) >= Capacity

CellsOf(t) == heap[t]

PageList == [k \in 1..Len(tables) |-> CellsOf(tables[k])]

RECURSIVE Concat(_)
Concat(ss) == IF ss = <<>> THEN <<>> ELSE Head(ss) \o Concat(Tail(ss))

----------------------------------------------------------------------------
(* File names of the scratch directory *)

FileName(p, side) == <<p, side>>

\* the names 1a, 1b, 2a, 2b, ... for n pages
RECURSIVE SideNames(_)
SideNames(n) ==
    IF n = 0 THEN <<>>
    ELSE SideNames(n - 1) \o <<FileName(n, "a"), FileName(n, "b")>>

MaxPages == (MaxTracks + Capacity - 1) \div Capacity

AllFiles == {FileName(p, sd) : p \in 1..(MaxPages + MaxStale), sd \in {"a", "b"}}

Range(f) == {f[k] : k \in DOMAIN f}

isfile(f) == pdf[f] # "none"

Running == -1

Min(a, b) == IF a <= b THEN a ELSE b

----------------------------------------------------------------------------
(* The drawing files of the driver *)

NoSvg == [state |-> "none", mode |-> "", cards |-> <<>>, footer |-> <<>>]

EmptySvg == [state |-> "empty", mode |-> "", cards |-> <<>>, footer |-> <<>>]

----------------------------------------------------------------------------
(* line_break_text (src/cards_generator.py 61-74) *)

\* A string is a sequence of one-character strings.

Alphabet == <<"A", "B", "C", "D", "E", "F", "G", "H">>

\* a word of n letters; the letter is chosen by k
Word(k, n) == [j \in 1..n |-> Alphabet[((k - 1) % Len(Alphabet)) + 1]]

Abs(x) == IF x < 0 THEN -x ELSE x

\* s.split(" "): cut at every single space, empty pieces kept
RECURSIVE split(_)
split(str) ==
    IF \A k \in 1..Len(str) : str[k] # " "
    THEN <<str>>
    ELSE LET k == CHOOSE j \in 1..Len(str) :
                    str[j] = " " /\ \A m \in 1..(j - 1) : str[m] # " "
         IN  <<SubSeq(str, 1, k - 1)>> \o split(SubSeq(str, k + 1, Len(str)))

\* " ".join(ws)
RECURSIVE join(_)
join(ws) ==
    IF ws = <<>> THEN <<>>
    ELSE IF Len(ws) = 1 THEN ws[1]
    ELSE ws[1] \o <<" ">> \o join(Tail(ws))

\* sum(len(word) for word in words)
RECURSIVE char_count(_)
char_count(ws) == IF ws = <<>> THEN 0 ELSE Len(Head(ws)) + char_count(Tail(ws))

is_short_inclusive(str) == Len(str) <= LineThreshold

\* if len(s) < 24:
is_short(str) == Len(str) < LineThreshold

split_stop_all(n) == n

\* range(1, len(words) - 1): the exclusive end of the split indices
split_stop(n) == n - 1

improves_or_ties(d, best) == d <= best

\* if d < diff:
improves(d, best) == d < best

initial_diff_spaces(ws) == Len(ws) - 1

\* diff = char_count
initial_diff(ws) == char_count(ws)

\* one iteration of the loop: the candidate split before word i (0-based)
lbt_step(ws, i, st) ==
    LET t == join(SubSeq(ws, 1, i))
        b == join(SubSeq(ws, i + 1, Len(ws)))
        d == Abs(Len(t) - Len(b))
    IN  IF improves(d, st.diff)
        THEN [top |-> t, bot |-> b, diff |-> d,
              examined |-> Append(st.examined, i)]
        ELSE [st EXCEPT !.examined = Append(@, i)]

\* for i in range(1, len(words) - 1):
RECURSIVE lbt_loop(_, _, _)
lbt_loop(ws, i, st) ==
    IF i < split_stop(Len(ws))
    THEN lbt_loop(ws, i + 1, lbt_step(ws, i, st))
    ELSE st

\* the state of the search when the loop has ended
lbt_search(str) ==
    LET ws == split(str)
    IN  lbt_loop(ws, 1, [top |-> join(ws), bot |-> <<>>,
                         diff |-> initial_diff(ws), examined |-> <<>>])

line_break_text(str) ==
    IF is_short(str) THEN <<str>>
    ELSE <<lbt_search(str).top, lbt_search(str).bot>>

----------------------------------------------------------------------------
(* Table.render_svg (src/cards_generator.py 99-159) *)

\* Lengths are in units of 1/20 mm, so that every coordinate the code
\* computes is an integer.
U == 2 * 10

\* half a millimetre, for the offsets 6.5 and 0.5
Half == U \div 2

w_mm == 210 * U

h_mm == 297 * U

side_mm == 62 * U

line_height_mm == 6 * U

tw_mm(w) == side_mm * w

th_mm(h) == side_mm * h

hmargin_three_columns(w) == (w_mm - tw_mm(DefaultWidth)) \div 2

\* hmargin_mm = (w_mm - tw_mm) / 2
hmargin_mm(w) == (w_mm - tw_mm(w)) \div 2

vmargin_centred(w, h) == (h_mm - th_mm(h)) \div 2

\* vmargin_mm = (h_mm - th_mm) / 2; vmargin_mm = hmargin_mm
vmargin_mm(w, h) == hmargin_mm(w)

\* The tracks of a page are numbered; the texts and the code size of track k
\* are taken from a small catalogue.
SampleTexts ==
    <<join(<<Word(1, 4), Word(2, 4)>>),
      Word(1, 24),
      join(<<Word(1, 4), Word(2, 4), Word(3, 4), Word(4, 15)>>)>>

artist_of(k) == SampleTexts[(k % 3) + 1]

title_of(k) == SampleTexts[((k + 1) % 3) + 1]

\* track.qr_svg(): the side of the code, qr.pixel_size / 10 mm
qr_mm_of(k) == (IF k % 2 = 0 THEN 296 ELSE 328) * (U \div 10)

Line(a1, b1, a2, b2) == [kind |-> "line", x1 |-> a1, y1 |-> b1, x2 |-> a2, y2 |-> b2]

\* if config.grid: the rectangle of the table
grid_rect(w, h, g) ==
    IF g THEN <<[kind |-> "rect", x1 |-> hmargin_mm(w), y1 |-> vmargin_mm(w, h),
                 x2 |-> hmargin_mm(w) + tw_mm(w),
                 y2 |-> vmargin_mm(w, h) + th_mm(h)]>>
    ELSE <<>>

draws_crop_marks_on_grid(g, c) == c /\ g

\* if config.crop_marks:
draws_crop_marks(g, c) == c

\* for ix in range(0, self.width + 1): column line and crop marks
column_parts(w, h, g, c, ix) ==
    LET x == hmargin_mm(w) + ix * side_mm
        vm == vmargin_mm(w, h)
    IN  (IF g /\ ix > 0 /\ ix <= w
         THEN <<Line(x, vm, x, vm + th_mm(h))>> ELSE <<>>)
        \o (IF draws_crop_marks(g, c)
            THEN <<Line(x, vm - 5 * U, x, vm - 1 * U),
                   Line(x, vm + th_mm(h) + 1 * U, x, vm + th_mm(h) + 5 * U)>>
            ELSE <<>>)

\* for iy in range(0, self.height + 1): row line and crop marks
row_parts(w, h, g, c, iy) ==
    LET y == vmargin_mm(w, h) + iy * side_mm
        hm == hmargin_mm(w)
    IN  (IF g /\ iy > 0 /\ iy <= h
         THEN <<Line(hm, y, hm + tw_mm(w), y)>> ELSE <<>>)
        \o (IF draws_crop_marks(g, c)
            THEN <<Line(hm - 5 * U, y, hm - 1 * U, y),
                   Line(hm + tw_mm(w) + 1 * U, y, hm + tw_mm(w) + 5 * U, y)>>
            ELSE <<>>)

qr_ix_unmirrored(i, w) == i % w

\* mode == "qr": ix = self.width - 1 - (i % self.width)
qr_ix(i, w) == w - 1 - (i % w)

\* mode == "title": ix = i % self.width
title_ix(i, w) == i % w

card_iy_by_height(i, w) == i \div DefaultHeight

\* both modes: iy = i // self.width
card_iy(i, w) == i \div w

card_ix(md, i, w) == IF md = "qr" THEN qr_ix(i, w) ELSE title_ix(i, w)

\* render_text_svg (src/cards_generator.py 76-84)
render_text_svg(x, y, str, class) ==
    LET ls == line_break_text(str)
        h == line_height_mm * Len(ls)
    IN  [k \in 1..Len(ls) |->
            [kind |-> "text", class |-> class, x |-> x,
             y |-> y + line_height_mm * k - h \div 2, text |-> ls[k]]]

\* the elements of card i (0-based) for the given mode
card_parts(track, i, w, h, md) ==
    LET ix == card_ix(md, i, w)
        iy == card_iy(i, w)
    IN  IF md = "qr"
        THEN LET q == qr_mm_of(track)
                 x == hmargin_mm(w) + ix * side_mm + (side_mm - q) \div 2
                 y == vmargin_mm(w, h) + iy * side_mm + (side_mm - q) \div 2
             IN  [i |-> i, track |-> track, x |-> x, y |-> y,
                  elems |-> <<[kind |-> "g", x |-> x, y |-> y, size |-> q]>>]
        ELSE LET x == hmargin_mm(w) + ((2 * ix + 1) * side_mm) \div 2
                 y == vmargin_mm(w, h) + ((2 * iy + 1) * side_mm) \div 2
             IN  [i |-> i, track |-> track, x |-> x, y |-> y,
                  elems |->
                    <<[kind |-> "text", class |-> "year", x |-> x,
                       y |-> y + 6 * U + Half, text |-> track]>>
                    \o render_text_svg(x, y - 19 * U, artist_of(track), "artist")
                    \o render_text_svg(x, y + 18 * U, title_of(track), "title")]

NoDrawing == [lines |-> <<>>, cards |-> <<>>, footer |-> <<>>]

render_svg(cells, w, h, g, c, md, page_footer) ==
    [lines |-> grid_rect(w, h, g)
                 \o Concat([k \in 1..(w + 1) |-> column_parts(w, h, g, c, k - 1)])
                 \o Concat([k \in 1..(h + 1) |-> row_parts(w, h, g, c, k - 1)]),
     cards |-> [k \in 1..Len(cells) |-> card_parts(cells[k], k - 1, w, h, md)],
     footer |-> <<[kind |-> "text", class |-> "footer",
                   x |-> w_mm - hmargin_mm(w), y |-> h_mm - hmargin_mm(w),
                   text |-> page_footer]>>]

\* what the driver's scratch directory keeps of a drawing: the cell of
\* each card
card_cells(cells, w, md) ==
    [k \in 1..Len(cells) |->
        [i |-> k - 1, track |-> cells[k],
         ix |-> card_ix(md, k - 1, w), iy |-> card_iy(k - 1, w)]]

svg_file(cells, w, md, page_footer) ==
    [state |-> "written", mode |-> md, cards |-> card_cells(cells, w, md),
     footer |-> page_footer]

----------------------------------------------------------------------------
(* Idle values of the variables a specification does not use *)

TextIdle ==
    /\ s = <<>> /\ words = <<>> /\ top = <<>> /\ bot = <<>>
    /\ diff = 0 /\ examined = <<>> /\ lines = <<>> /\ lpc = "idle"

RenderIdle ==
    /\ width = DefaultWidth /\ height = DefaultHeight
    /\ ncells = 0 /\ mode = "title" /\ grid = FALSE /\ crop_marks = FALSE
    /\ drawing = NoDrawing /\ rpc = "idle"

PipeIdle ==
    /\ pc = "idle" /\ tracks = <<>> /\ ti = 0 /\ heap = <<>> /\ table = 0
    /\ tables = <<>> /\ pdf_inputs = <<>> /\ pdf_outputs = <<>> /\ ri = 0
    /\ svg = <<>> /\ pdf = <<>> /\ pending = {} /\ ci = 0 /\ attempt = 0
    /\ converted = <<>> /\ observed = {} /\ settled = FALSE /\ mi = 0
    /\ merged = <<>> /\ final_pdf = <<>> /\ temp_removed = FALSE
    /\ warned = FALSE /\ exit_status = Running

----------------------------------------------------------------------------
(* main(): pagination (src/main.py 17-42) *)

\* The tracks are sorted before the loop; track k of the sorted list is k.
\* The scratch directory may hold the documents an earlier aborted run left
\* behind: that run converted in the order 1a, 1b, 2a, ... and stopped at the
\* first missing one, so what it left is a prefix of that order.
Init ==
    /\ \E n \in 0..MaxTracks : tracks = [k \in 1..n |-> k]
    /\ pc = "paginate"
    /\ ti = 1
    /\ heap = << <<>> >>
    /\ table = 1
    /\ tables = <<>>
    /\ pdf_inputs = <<>> /\ pdf_outputs = <<>>
    /\ ri = 1
    /\ svg = [f \in AllFiles |-> NoSvg]
    /\ \E st \in 0..(2 * MaxStale) :
          pdf = [f \in AllFiles |->
                   IF \E k \in 1..st : SideNames(MaxStale)[k] = f
                   THEN "stale" ELSE "none"]
    /\ pending = {}
    /\ ci = 1 /\ attempt = 0
    /\ converted = <<>>
    /\ observed = {}
    /\ settled = FALSE
    /\ mi = 1 /\ merged = <<>>
    /\ final_pdf = <<>>
    /\ temp_removed = FALSE /\ warned = FALSE
    /\ exit_status = Running
    /\ TextIdle /\ RenderIdle

driverVars == <<pdf_inputs, pdf_outputs, ri, svg, pdf, pending, ci, attempt,
                converted, observed, settled, mi, merged, final_pdf,
                temp_removed, warned, exit_status>>

\* for track in tracks: table.append(track); if table.is_full():
\*     tables.append(table); table = Table.new()
PaginateAppend ==
    /\ pc = "paginate"
    /\ ti <= Len(tracks)
    /\ LET h1 == [heap EXCEPT ![table] = Append(@, tracks[ti])]
       IN  IF is_full(h1[table])
           THEN /\ tables' = Append(tables, table)
                /\ table' = Table_new(h1)
                /\ heap' = IF Table_new(h1) > Len(h1)
                           THEN Append(h1, <<>>) ELSE h1
           ELSE /\ heap' = h1
                /\ UNCHANGED <<table, tables>>
    /\ ti' = ti + 1
    /\ UNCHANGED <<pc, tracks, driverVars, textVars, renderVars>>

\* if not table.is_empty(): tables.append(table)
PaginateEnd ==
    /\ pc = "paginate"
    /\ ti > Len(tracks)
    /\ tables' = IF ~is_empty(heap[table]) THEN Append(tables, table) ELSE tables
    /\ pc' = "render"
    /\ UNCHANGED <<tracks, ti, heap, table, driverVars, textVars, renderVars>>

----------------------------------------------------------------------------
(* generate_cards (src/cards_generator.py 11-59) *)

\* pdf_outputs.extend([title_pdf, qr_pdf])
extend_grouped(outs, p) ==
    LET n == Len(outs) \div 2
    IN  SubSeq(outs, 1, n) \o <<FileName(p, "a")>>
          \o SubSeq(outs, n + 1, Len(outs)) \o <<FileName(p, "b")>>

extend(outs, p) == outs \o <<FileName(p, "a"), FileName(p, "b")>>

abortVars == <<ri, ci, attempt, converted, observed, settled, mi, merged,
               final_pdf, temp_removed, warned>>

\* for i, table in enumerate(tables): names, then both sides are written
RenderPage ==
    /\ pc = "render"
    /\ ri <= Len(tables)
    /\ LET title == FileName(ri, "a")
           qr == FileName(ri, "b")
           cells == CellsOf(tables[ri])
       IN  /\ pdf_inputs' = extend(pdf_inputs, ri)
           /\ pdf_outputs' = extend(pdf_outputs, ri)
           /\ svg' = [svg EXCEPT
                        ![title] = svg_file(cells, DefaultWidth, "title", title),
                        ![qr] = svg_file(cells, DefaultWidth, "qr", qr)]
    /\ ri' = ri + 1
    /\ UNCHANGED <<pc, tracks, ti, heap, table, tables, pdf, pending, ci,
                   attempt, converted, observed, settled, mi, merged,
                   final_pdf, temp_removed, warned, exit_status,
                   textVars, renderVars>>

\* track.qr_svg() raises while the code side is rendered: the title side has
\* been written, the code side file has been opened (created empty), and the
\* exception leaves generate_cards
after_qr_error_continue == "render"

\* no except clause around table.render_svg(config, "qr", ...): the run ends
after_qr_error == "aborted"

RenderQrFail ==
    /\ pc = "render"
    /\ ri <= Len(tables)
    /\ ~is_empty(CellsOf(tables[ri]))
    /\ LET title == FileName(ri, "a")
           qr == FileName(ri, "b")
           cells == CellsOf(tables[ri])
       IN  /\ pdf_inputs' = extend(pdf_inputs, ri)
           /\ pdf_outputs' = extend(pdf_outputs, ri)
           /\ svg' = [svg EXCEPT
                        ![title] = svg_file(cells, DefaultWidth, "title", title),
                        ![qr] = EmptySvg]
    /\ pc' = after_qr_error
    /\ exit_status' = 1
    /\ UNCHANGED <<tracks, ti, heap, table, tables, pdf, pending, abortVars,
                   textVars, renderVars>>

RenderDone ==
    /\ pc = "render"
    /\ ri > Len(tables)
    /\ pc' = "convert"
    /\ UNCHANGED <<tracks, ti, heap, table, tables, driverVars,
                   textVars, renderVars>>

NPairs_short == Min(Len(pdf_inputs), Len(pdf_outputs)) - 1

\* zip(pdf_inputs, pdf_outputs)
NPairs == Min(Len(pdf_inputs), Len(pdf_outputs))

\* subprocess.check_call(["inkscape", ...]): the converter returns having
\* written the document ("written"), having still to flush it ("late"),
\* having written nothing ("nothing"), or with a non-zero status ("error")
Convert ==
    /\ pc = "convert"
    /\ ci <= NPairs
    /\ LET f == pdf_outputs[ci] IN
       \E outcome \in {"written", "late", "nothing", "error"} :
          /\ converted' = Append(converted, f)
          /\ pdf' = IF outcome = "written" THEN [pdf EXCEPT ![f] = "fresh"]
                    ELSE pdf
          /\ pending' = IF outcome = "late" THEN pending \cup {f} ELSE pending
          /\ IF outcome = "error"
             THEN /\ pc' = "aborted" /\ exit_status' = 1
             ELSE /\ pc' = "poll" /\ UNCHANGED exit_status
    /\ attempt' = 0
    /\ UNCHANGED <<tracks, ti, heap, table, tables, pdf_inputs, pdf_outputs,
                   ri, svg, ci, observed, settled, mi, merged, final_pdf,
                   temp_removed, warned, textVars, renderVars>>

\* the converter flushes a document after it has returned
FileAppears ==
    /\ pc \in {"poll", "check", "convert", "merge"}
    /\ \E f \in pending :
          /\ pdf' = [pdf EXCEPT ![f] = "fresh"]
          /\ pending' = pending \ {f}
    /\ UNCHANGED <<pc, tracks, ti, heap, table, tables, pdf_inputs,
                   pdf_outputs, ri, svg, ci, attempt, converted, observed,
                   settled, mi, merged, final_pdf, temp_removed, warned,
                   exit_status, textVars, renderVars>>

\* for _ in range(20): if os.path.isfile(pdf_file): break; time.sleep(0.1)
Poll ==
    /\ pc = "poll"
    /\ attempt < PollAttempts
    /\ IF isfile(pdf_outputs[ci])
       THEN /\ pc' = "check" /\ UNCHANGED attempt
       ELSE /\ attempt' = attempt + 1
            /\ pc' = IF attempt + 1 = PollAttempts THEN "check" ELSE "poll"
    /\ UNCHANGED <<tracks, ti, heap, table, tables, pdf_inputs, pdf_outputs,
                   ri, svg, pdf, pending, ci, converted, observed, settled,
                   mi, merged, final_pdf, temp_removed, warned, exit_status,
                   textVars, renderVars>>

not_generated_ignored(f) == FALSE

\* if not os.path.isfile(pdf_file):
not_generated(f) == ~isfile(f)

next_pair_retry(c) == c

\* the for loop over zip(pdf_inputs, pdf_outputs) goes on to the next pair
next_pair(c) == c + 1

scratch_on_exit_removed(files) == [f \in DOMAIN files |-> "none"]

\* print("ERROR: ..."); exit(1): the scratch directory is left as it is
scratch_on_exit(files) == files

\* if not os.path.isfile(pdf_file): print("ERROR: ..."); exit(1)
FinalCheck ==
    /\ pc = "check"
    /\ IF not_generated(pdf_outputs[ci])
       THEN /\ pc' = "aborted" /\ exit_status' = 1
            /\ pdf' = scratch_on_exit(pdf)
            /\ UNCHANGED <<observed, ci>>
       ELSE /\ observed' = observed \cup {pdf_outputs[ci]}
            /\ ci' = next_pair(ci)
            /\ pc' = "convert"
            /\ UNCHANGED <<exit_status, pdf>>
    /\ UNCHANGED <<tracks, ti, heap, table, tables, pdf_inputs, pdf_outputs,
                   ri, svg, pending, attempt, converted, settled, mi,
                   merged, final_pdf, temp_removed, warned,
                   textVars, renderVars>>

\* time.sleep(15); merger = PdfMerger()
Settle ==
    /\ pc = "convert"
    /\ ci > NPairs
    /\ settled' = TRUE
    /\ pc' = "merge"
    /\ UNCHANGED <<tracks, ti, heap, table, tables, pdf_inputs, pdf_outputs,
                   ri, svg, pdf, pending, ci, attempt, converted, observed,
                   mi, merged, final_pdf, temp_removed, warned, exit_status,
                   textVars, renderVars>>

\* for pdf_file in pdf_outputs: merger.append(pdf_file)
MergeAppend ==
    /\ pc = "merge"
    /\ mi <= Len(pdf_outputs)
    /\ LET f == pdf_outputs[mi] IN
       IF isfile(f)
       THEN /\ merged' = Append(merged, [file |-> f, origin |-> pdf[f]])
            /\ mi' = mi + 1
            /\ UNCHANGED <<pc, exit_status>>
       ELSE /\ pc' = "aborted" /\ exit_status' = 1
            /\ UNCHANGED <<merged, mi>>
    /\ UNCHANGED <<tracks, ti, heap, table, tables, pdf_inputs, pdf_outputs,
                   ri, svg, pdf, pending, ci, attempt, converted, observed,
                   settled, final_pdf, temp_removed, warned,
                   textVars, renderVars>>

\* merger.write(final_pdf); merger.close()
MergeWrite ==
    /\ pc = "merge"
    /\ mi > Len(pdf_outputs)
    /\ final_pdf' = <<merged>>
    /\ pc' = "cleanup"
    /\ UNCHANGED <<tracks, ti, heap, table, tables, pdf_inputs, pdf_outputs,
                   ri, svg, pdf, pending, ci, attempt, converted, observed,
                   settled, mi, merged, temp_removed, warned, exit_status,
                   textVars, renderVars>>

cleanup_status_fatal(ok) == IF ok THEN 0 ELSE 1

\* except Exception as e: print("Warning: ..."): the failure is swallowed and
\* generate_cards returns normally either way
cleanup_status(ok) == 0

\* try: shutil.rmtree(temp_dir) except Exception: print("Warning: ...")
Cleanup ==
    /\ pc = "cleanup"
    /\ \E ok \in BOOLEAN :
          /\ IF ok
             THEN /\ svg' = [f \in AllFiles |-> NoSvg]
                  /\ pdf' = [f \in AllFiles |-> "none"]
                  /\ temp_removed' = TRUE
                  /\ UNCHANGED warned
             ELSE /\ warned' = TRUE
                  /\ UNCHANGED <<svg, pdf, temp_removed>>
          /\ exit_status' = cleanup_status(ok)
    /\ pc' = "done"
    /\ UNCHANGED <<tracks, ti, heap, table, tables, pdf_inputs, pdf_outputs,
                   ri, pending, ci, attempt, converted, observed, settled,
                   mi, merged, final_pdf, textVars, renderVars>>

----------------------------------------------------------------------------
(* line_break_text applied to bounded inputs *)

WordLens == {0, 1, 2, 4, 15, 24}

Inputs ==
    {join([k \in 1..Len(lens) |-> Word(k, lens[k])]) :
        lens \in UNION {[1..n -> WordLens] : n \in 1..MaxWords}}

TextInit ==
    /\ s \in Inputs
    /\ words = <<>> /\ top = <<>> /\ bot = <<>> /\ diff = 0
    /\ examined = <<>> /\ lines = <<>>
    /\ lpc = "call"
    /\ PipeIdle /\ RenderIdle

\* if len(s) < 24: return [s]
LineBreakShort ==
    /\ lpc = "call"
    /\ is_short(s)
    /\ lines' = line_break_text(s)
    /\ lpc' = "returned"
    /\ UNCHANGED <<s, words, top, bot, diff, examined, pipeVars, renderVars>>

\* the split search and return [top, bot]
LineBreakSearch ==
    /\ lpc = "call"
    /\ ~is_short(s)
    /\ words' = split(s)
    /\ top' = lbt_search(s).top
    /\ bot' = lbt_search(s).bot
    /\ diff' = lbt_search(s).diff
    /\ examined' = lbt_search(s).examined
    /\ lines' = line_break_text(s)
    /\ lpc' = "returned"
    /\ UNCHANGED <<s, pipeVars, renderVars>>

TextNext ==
    \/ LineBreakShort
    \/ LineBreakSearch

TextSpec == TextInit /\ [][TextNext]_vars

----------------------------------------------------------------------------
(* Table.render_svg applied to bounded tables *)

RenderInit ==
    /\ width \in 1..MaxWidth
    /\ height \in 1..MaxHeight
    /\ ncells \in 0..(width * height)
    /\ mode \in {"title", "qr"}
    /\ grid \in BOOLEAN
    /\ crop_marks \in BOOLEAN
    /\ drawing = NoDrawing
    /\ rpc = "call"
    /\ PipeIdle /\ TextIdle

RenderSvg ==
    /\ rpc = "call"
    /\ drawing' = render_svg([k \in 1..ncells |-> k], width, height, grid,
                             crop_marks, mode, <<1, "a">>)
    /\ rpc' = "returned"
    /\ UNCHANGED <<width, height, ncells, mode, grid, crop_marks,
                   pipeVars, textVars>>

RenderNext == RenderSvg

RenderSpec == RenderInit /\ [][RenderNext]_vars

----------------------------------------------------------------------------
Next ==
    \/ PaginateAppend
    \/ PaginateEnd
    \/ RenderPage
    \/ RenderQrFail
    \/ RenderDone
    \/ Convert
    \/ FileAppears
    \/ Poll
    \/ FinalCheck
    \/ Settle
    \/ MergeAppend
    \/ MergeWrite
    \/ Cleanup

Spec == Init /\ [][Next]_vars

\* The steps of the driver itself: the program is sequential and goes on as
\* long as the calls it makes return. The converter's late flush
\* (FileAppears) is not the driver's and is not assumed to happen.
DriverNext ==
    \/ PaginateAppend
    \/ PaginateEnd
    \/ RenderPage
    \/ RenderDone
    \/ Convert
    \/ Poll
    \/ FinalCheck
    \/ Settle
    \/ MergeAppend
    \/ MergeWrite
    \/ Cleanup

FairSpec == Spec /\ WF_vars(DriverNext)

----------------------------------------------------------------------------
(* Pagination *)

CeilDiv(n, d) == (n + d - 1) \div d

\* C2: once the pagination loop has ended, N tracks give ceil(N/capacity)
\* pages, every page but the last holds capacity tracks, the last holds
\* N mod capacity (capacity when N is a positive multiple), no page is empty
\* and the pages concatenated in order are the input sequence.
PaginationExact ==
    pc # "paginate" =>
        LET N == Len(tracks)
            P == Len(tables)
        IN  /\ P = CeilDiv(N, Capacity)
            /\ \A k \in 1..P :
                  /\ k < P => Len(PageList[k]) = Capacity
                  /\ k = P => Len(PageList[k]) =
                                 (IF N % Capacity = 0 THEN Capacity
                                  ELSE N % Capacity)
                  /\ Len(PageList[k]) > 0
            /\ Concat(PageList) = tracks

PaginationExactWitness ==
    /\ pc = "render"
    /\ Len(tracks) = 2 * Capacity
    /\ Len(tables) = 2
    /\ Len(PageList[2]) = Capacity

\* C3: every page, under construction or in the page list, holds at most
\* capacity tracks; a page in the page list stays in it with its cells
\* unchanged, and the page under construction is none of the sealed ones.
SealedPagesFrozen ==
    /\ [](/\ Len(CellsOf(table)) <= Capacity
          /\ \A k \in 1..Len(tables) : Len(PageList[k]) <= Capacity
          /\ pc = "paginate" => \A k \in 1..Len(tables) : tables[k] # table)
    /\ [][\A k \in 1..Len(tables) :
            /\ k <= Len(tables')
            /\ tables'[k] = tables[k]
            /\ heap'[tables[k]] = heap[tables[k]]]_vars

SealedPagesFrozenWitness ==
    /\ pc = "paginate"
    /\ Len(tables) = 1
    /\ Len(PageList[1]) = Capacity
    /\ Len(CellsOf(table)) = 1
    /\ ti = Capacity + 2

----------------------------------------------------------------------------
(* The driver *)

MergedFiles == [k \in 1..Len(merged) |-> merged[k].file]

\* C4: a final existence test that finds the document missing ends the run
\* with a non-zero status; nothing has been handed to the merge then, and an
\* aborted run stays aborted with no final document written.
MissingOutputAborts ==
    /\ [][(pc = "check" /\ pc' # "check" /\ ~isfile(pdf_outputs[ci])) =>
            (pc' = "aborted" /\ exit_status' > 0)]_vars
    /\ [](pc = "aborted" =>
            (exit_status > 0 /\ ~settled /\ merged = <<>> /\ final_pdf = <<>>))
    /\ [][pc = "aborted" => pc' = "aborted"]_vars

MissingOutputAbortsWitness ==
    /\ pc = "aborted"
    /\ ci = 6
    /\ pdf_outputs[ci] = FileName(3, "b")
    /\ ~isfile(FileName(3, "b"))
    /\ attempt = PollAttempts
    /\ final_pdf = <<>>

\* C5: what the merge receives is a prefix of 1a, 1b, 2a, 2b, ..., Pa, Pb and
\* the final document of a run over P pages is made of exactly these 2P
\* documents in that order.
MergeOrder ==
    /\ Len(merged) <= 2 * Len(tables)
    /\ MergedFiles = SubSeq(SideNames(Len(tables)), 1, Len(merged))
    /\ final_pdf # <<>> =>
          /\ Len(final_pdf[1]) = 2 * Len(tables)
          /\ [k \in 1..Len(final_pdf[1]) |-> final_pdf[1][k].file] =
                SideNames(Len(tables))

MergeOrderWitness ==
    /\ pc = "done"
    /\ exit_status = 0
    /\ Len(tables) = 3
    /\ Len(final_pdf[1]) = 6

\* C6: when the merge begins and from then on, the settle delay has elapsed
\* and every page-side of every page has been converted and seen to exist by
\* the final existence test after its conversion (and, until the cleanup,
\* its drawing is written); every document handed to the merge was seen.
MergeAfterAll ==
    /\ observed \subseteq Range(converted)
    /\ \A k \in 1..Len(merged) : merged[k].file \in observed
    /\ (pc \in {"merge", "cleanup", "done"} \/ merged # <<>>) =>
          /\ settled
          /\ \A f \in Range(SideNames(Len(tables))) :
                /\ f \in Range(converted)
                /\ f \in observed
                /\ pc = "merge" => svg[f].state = "written"

MergeAfterAllWitness ==
    /\ pc = "merge"
    /\ Len(tables) = 2
    /\ Len(merged) = 4
    /\ settled

----------------------------------------------------------------------------
(* line_break_text *)

\* the split before word i (0-based) of the words ws
SplitAt(ws, i) == <<join(SubSeq(ws, 1, i)), join(SubSeq(ws, i + 1, Len(ws)))>>

Imbalance(pair) == Abs(Len(pair[1]) - Len(pair[2]))

\* the splits that give each line at least one word
ValidSplits(ws) == 1..(Len(ws) - 1)

\* C7: a returned pair of an input of length >= 24 has the least imbalance
\* abs(len(top) - len(bot)) of all splits that give each line a word.
BalancedSplit ==
    (lpc = "returned" /\ Len(s) >= LineThreshold /\ Len(lines) = 2
        /\ lines[2] # <<>>) =>
        \A i \in ValidSplits(split(s)) :
            Imbalance(lines) <= Imbalance(SplitAt(split(s), i))

\* C8: the returned lines joined with single spaces are the input.
Reconstruction ==
    lpc = "returned" => join(lines) = s

\* C9: an input shorter than 24 characters is returned as the single line
\* [s] without a split search; an input of exactly 24 characters goes
\* through the split search.
ShortUnchanged ==
    lpc = "returned" =>
        /\ Len(s) < LineThreshold => (lines = <<s>> /\ words = <<>>)
        /\ Len(s) = LineThreshold => (words = split(s) /\ Len(lines) = 2)

ShortUnchangedWitness ==
    /\ lpc = "returned"
    /\ Len(s) = LineThreshold - 1
    /\ \E k \in 1..Len(s) : s[k] = " "
    /\ lines = <<s>>

\* C10: an input of length >= 24 without a space is returned as the
\* one-element list [s].
SingleWordSingleLine ==
    (lpc = "returned" /\ Len(s) >= LineThreshold /\ Len(split(s)) < 2) =>
        lines = <<s>>

----------------------------------------------------------------------------
(* Table.render_svg *)

\* the point (x, y) lies in the cell of column col and row row of the table
InCell(x, y, col, row) ==
    /\ hmargin_mm(width) + col * side_mm <= x
    /\ x < hmargin_mm(width) + (col + 1) * side_mm
    /\ vmargin_mm(width, height) + row * side_mm <= y
    /\ y < vmargin_mm(width, height) + (row + 1) * side_mm

\* C1: card i of a rendered page is drawn in row i div columns and, in code
\* mode, in column columns-1-(i mod columns), in title mode in column
\* i mod columns; with 3 columns the code side puts the cards 0, 1, 2, 3
\* in the columns 2, 1, 0, 2.
MirroredPlacement ==
    rpc = "returned" =>
        /\ Len(drawing.cards) = ncells
        /\ \A k \in 1..ncells :
              LET i == k - 1
                  card == drawing.cards[k]
              IN  /\ card.i = i
                  /\ mode = "qr" =>
                        InCell(card.x, card.y,
                               width - 1 - (i % width), i \div width)
                  /\ mode = "title" =>
                        InCell(card.x, card.y, i % width, i \div width)
        /\ (mode = "qr" /\ width = 3) =>
              \A k \in 1..Min(ncells, 4) :
                  InCell(drawing.cards[k].x, drawing.cards[k].y,
                         <<2, 1, 0, 2>>[k], <<0, 0, 0, 1>>[k])

MirroredPlacementWitness ==
    /\ rpc = "returned"
    /\ mode = "qr"
    /\ width = 3
    /\ ncells >= 4
    /\ InCell(drawing.cards[4].x, drawing.cards[4].y, 2, 1)

----------------------------------------------------------------------------
(* Pages and their drawings in the run *)

\* the cells a drawing file puts a card in
UsedCells(f) == {<<svg[f].cards[k].ix, svg[f].cards[k].iy>> :
                    k \in 1..Len(svg[f].cards)}

\* C11: a written side of page p holding k tracks has exactly the k cards
\* 0..k-1 of the page, in row-major order (mirrored columns on the code
\* side), each in a cell of its own inside the grid, so capacity-k cells
\* stay empty; with 13 tracks page 2 has one card on each side and its code
\* is in column 2, row 0.
PageCards ==
    /\ \A p \in 1..Len(tables) : \A sd \in {"a", "b"} :
          LET f == FileName(p, sd)
              k == Len(PageList[p])
          IN  svg[f].state = "written" =>
                /\ Len(svg[f].cards) = k
                /\ \A j \in 1..k :
                      /\ svg[f].cards[j].i = j - 1
                      /\ svg[f].cards[j].track = PageList[p][j]
                      /\ svg[f].cards[j].iy = (j - 1) \div DefaultWidth
                      /\ svg[f].cards[j].ix =
                            (IF sd = "a" THEN (j - 1) % DefaultWidth
                             ELSE DefaultWidth - 1 - ((j - 1) % DefaultWidth))
                /\ UsedCells(f) \subseteq
                      (0..(DefaultWidth - 1)) \X (0..(DefaultHeight - 1))
                /\ Cardinality(UsedCells(f)) = k
                /\ Capacity - Cardinality(UsedCells(f)) = Capacity - k
    /\ (Len(tracks) = Capacity + 1 /\ svg[FileName(2, "b")].state = "written") =>
          /\ Len(svg[FileName(2, "a")].cards) = 1
          /\ Capacity - Cardinality(UsedCells(FileName(2, "a"))) = 11
          /\ UsedCells(FileName(2, "b")) = {<<2, 0>>}

PageCardsWitness ==
    /\ Len(tracks) = Capacity + 1
    /\ svg[FileName(2, "a")].state = "written"
    /\ svg[FileName(2, "b")].state = "written"
    /\ Len(svg[FileName(2, "a")].cards) = 1
    /\ svg[FileName(2, "b")].cards[1].ix = 2

\* C12: with no input track the page list stays empty, nothing is rendered,
\* no converter is invoked, no existence poll is made and the run does not
\* abort.
EmptyInputRun ==
    Len(tracks) = 0 =>
        /\ tables = <<>>
        /\ pdf_inputs = <<>> /\ pdf_outputs = <<>>
        /\ \A f \in AllFiles : svg[f].state = "none"
        /\ converted = <<>>
        /\ attempt = 0 /\ observed = {}
        /\ pc \notin {"poll", "check", "aborted"}
        /\ exit_status \in {Running, 0}

EmptyInputRunWitness ==
    /\ Len(tracks) = 0
    /\ pc = "done"
    /\ exit_status = 0
    /\ converted = <<>>

----------------------------------------------------------------------------
(* Cleanup and failures of the driver *)

\* C13: the cleanup follows the written final document and leaves it as it
\* is; it ends the run with status 0 whether the removal succeeded (no
\* drawing and no document is left in the scratch directory) or failed (the
\* warning is printed).
CleanupNotFatal ==
    /\ [](pc = "done" =>
            /\ exit_status = 0
            /\ final_pdf = <<merged>>
            /\ temp_removed \/ warned
            /\ temp_removed =>
                  \A f \in AllFiles : svg[f].state = "none" /\ pdf[f] = "none"
            /\ ~temp_removed => warned)
    /\ [][pc = "cleanup" =>
            (pc' = "done" /\ exit_status' = 0 /\ final_pdf' = final_pdf
             /\ final_pdf # <<>>)]_vars

CleanupNotFatalWitness ==
    /\ pc = "done"
    /\ warned /\ ~temp_removed
    /\ exit_status = 0
    /\ Len(final_pdf[1]) = 2
    /\ isfile(FileName(1, "a"))

\* a code side whose code generator failed: its file was opened and nothing
\* was written to it
QrFailed == \E f \in AllFiles : svg[f].state = "empty"

\* C14: when the code generator fails while a code side is rendered the run
\* is over with a non-zero status: the code side has no card (no
\* placeholder), no converter is invoked, the merge is not reached and no
\* final document is written.
QrFailureFatal ==
    /\ [](QrFailed =>
            /\ pc = "aborted"
            /\ exit_status > 0
            /\ \A f \in AllFiles : svg[f].state = "empty" => svg[f].cards = <<>>
            /\ converted = <<>>
            /\ ~settled /\ merged = <<>> /\ final_pdf = <<>>)
    /\ [][QrFailed => (QrFailed' /\ pc' = "aborted")]_vars

QrFailureFatalWitness ==
    /\ QrFailed
    /\ svg[FileName(2, "b")].state = "empty"
    /\ svg[FileName(2, "a")].state = "written"
    /\ svg[FileName(1, "b")].state = "written"
    /\ pc = "aborted"

----------------------------------------------------------------------------
(* Margins *)

\* the margin (pageWidth - columns * side) / 2, in units of 1/20 mm
SideMargin(w) == (210 * U - w * 62 * U) \div 2

\* C15: every row of the drawing is placed from a top margin equal to the
\* horizontal margin (pageWidth - columns*side)/2: the grid rectangle starts
\* at (margin, margin), the row boundaries and the cards of row iy are at
\* margin + iy*side; for the 3x4 grid the margin is 12 mm, not
\* (297 - 4*62)/2.
MarginSymmetry ==
    rpc = "returned" =>
        LET m == SideMargin(width)
        IN  /\ \A k \in 1..Len(drawing.lines) :
                  LET l == drawing.lines[k]
                  IN  /\ l.kind = "rect" =>
                            (l.x1 = m /\ l.y1 = m
                             /\ l.y2 = m + height * side_mm)
                      /\ (l.kind = "line" /\ l.y1 = l.y2) =>
                            \E iy \in 0..height : l.y1 = m + iy * side_mm
                      /\ (l.kind = "line" /\ l.x1 = l.x2) =>
                            \/ l.y1 = m /\ l.y2 = m + height * side_mm
                            \/ l.y1 = m - 5 * U /\ l.y2 = m - 1 * U
                            \/ /\ l.y1 = m + height * side_mm + 1 * U
                               /\ l.y2 = m + height * side_mm + 5 * U
            /\ \A k \in 1..Len(drawing.cards) :
                  LET c == drawing.cards[k]
                      iy == (k - 1) \div width
                  IN  /\ m + iy * side_mm <= c.y
                      /\ c.y < m + (iy + 1) * side_mm
                      /\ mode = "title" => c.y = m + iy * side_mm + side_mm \div 2
            /\ (width = 3 /\ height = 4) =>
                  (m = 12 * U /\ m # (297 * U - 4 * 62 * U) \div 2)

MarginSymmetryWitness ==
    /\ rpc = "returned"
    /\ width = 3 /\ height = 4
    /\ grid /\ crop_marks
    /\ ncells = 12
    /\ drawing.lines[1].kind = "rect"
    /\ drawing.lines[1].y1 = 12 * U

----------------------------------------------------------------------------
(* The existence poll *)

NoReconversion ==
    /\ [](/\ Len(converted) <= 2 * Len(tables)
          /\ converted = SubSeq(SideNames(Len(tables)), 1, Len(converted))
          /\ \A j, k \in 1..Len(converted) :
                converted[j] = converted[k] => j = k
          /\ \A k \in 1..(Len(converted) - 1) : converted[k] \in observed)
    /\ [][pc = "aborted" => converted' = converted]_vars

NoReconversionWitness ==
    /\ pc = "aborted"
    /\ Len(tables) = 3
    /\ converted = <<FileName(1, "a"), FileName(1, "b"), FileName(2, "a")>>
    /\ ~isfile(FileName(2, "a"))
    /\ attempt = PollAttempts

\* C18: the abort on a missing document changes no drawing and no document
\* of the scratch directory, and nothing changes them afterwards: in an
\* aborted run every rendered drawing and every document seen is still
\* there; the scratch directory is removed only in a run that has ended
\* after the final document was written.
AbortLeavesFiles ==
    /\ [][(pc = "check" /\ pc' = "aborted") =>
            (svg' = svg /\ pdf' = pdf /\ temp_removed' = temp_removed)]_vars
    /\ [][pc = "aborted" => (svg' = svg /\ pdf' = pdf)]_vars
    /\ [](pc = "aborted" =>
            /\ ~temp_removed
            /\ \A f \in observed : isfile(f)
            /\ \A p \in 1..(ri - 1) :
                  /\ svg[FileName(p, "a")].state = "written"
                  /\ svg[FileName(p, "b")].state = "written")
    /\ [](temp_removed => (pc = "done" /\ final_pdf # <<>>))

AbortLeavesFilesWitness ==
    /\ pc = "aborted"
    /\ attempt = PollAttempts
    /\ Cardinality(observed) = 3
    /\ \A f \in observed : pdf[f] = "fresh"
    /\ svg[FileName(2, "b")].state = "written"
    /\ ~isfile(FileName(2, "b"))

----------------------------------------------------------------------------
(* The split search *)

\* the split indices the loop is said to examine: 1 .. wordCount-2
LoopSplits(ws) == 1..(Len(ws) - 2)

\* the least imbalance of the splits of LoopSplits (for 3 words or more)
LeastImbalance(ws) ==
    CHOOSE m \in {Imbalance(SplitAt(ws, i)) : i \in LoopSplits(ws)} :
        \A i \in LoopSplits(ws) : m <= Imbalance(SplitAt(ws, i))

\* the splits of LoopSplits that attain the least imbalance
LeastSplits(ws) ==
    {i \in LoopSplits(ws) : Imbalance(SplitAt(ws, i)) = LeastImbalance(ws)}

FirstOf(S) == CHOOSE i \in S : \A j \in S : i <= j

Searched == lpc = "returned" /\ Len(s) >= LineThreshold

----------------------------------------------------------------------------
(* Grid lines *)

\* the x of the lines drawn from the top to the bottom of the table
GridColumnLines ==
    {l.x1 : l \in {m \in Range(drawing.lines) :
                      /\ m.kind = "line" /\ m.x1 = m.x2
                      /\ m.y1 = SideMargin(width)
                      /\ m.y2 = SideMargin(width) + height * side_mm}}

\* the y of the lines drawn from the left to the right of the table
GridRowLines ==
    {l.y1 : l \in {m \in Range(drawing.lines) :
                      /\ m.kind = "line" /\ m.y1 = m.y2
                      /\ m.x1 = SideMargin(width)
                      /\ m.x2 = SideMargin(width) + width * side_mm}}

GridRects == {k \in 1..Len(drawing.lines) : drawing.lines[k].kind = "rect"}

\* C20: with the grid enabled the drawing has one rectangle around the
\* table, a column line at the boundaries 1..columns-1 only and a row line
\* at the boundaries 1..rows-1 only; with the grid disabled it has none of
\* these.
GridInteriorOnly ==
    rpc = "returned" =>
        IF grid
        THEN /\ Cardinality(GridRects) = 1
             /\ GridColumnLines =
                   {SideMargin(width) + k * side_mm : k \in 1..(width - 1)}
             /\ GridRowLines =
                   {SideMargin(width) + k * side_mm : k \in 1..(height - 1)}
        ELSE GridRects = {} /\ GridColumnLines = {} /\ GridRowLines = {}

----------------------------------------------------------------------------
(* Crop marks *)

TableLeft == SideMargin(width)

TableTop == SideMargin(width)

TableRight == TableLeft + width * side_mm

TableBottom == TableTop + height * side_mm

\* the lines of the drawing that lie wholly outside the table
CropTicks ==
    {m \in Range(drawing.lines) :
        /\ m.kind = "line"
        /\ \/ m.y2 < TableTop \/ m.y1 > TableBottom
           \/ m.x2 < TableLeft \/ m.x1 > TableRight}

\* a tick from 5 to 1 above and from 1 to 5 below the table at every column
\* boundary, and the same left and right of it at every row boundary
BoundaryTicks ==
    UNION {{Line(TableLeft + k * side_mm, TableTop - 5 * U,
                 TableLeft + k * side_mm, TableTop - 1 * U),
            Line(TableLeft + k * side_mm, TableBottom + 1 * U,
                 TableLeft + k * side_mm, TableBottom + 5 * U)} :
           k \in 0..width}
    \cup
    UNION {{Line(TableLeft - 5 * U, TableTop + k * side_mm,
                 TableLeft - 1 * U, TableTop + k * side_mm),
            Line(TableRight + 1 * U, TableTop + k * side_mm,
                 TableRight + 5 * U, TableTop + k * side_mm)} :
           k \in 0..height}

\* C21: with crop marks enabled the lines outside the table are exactly the
\* ticks at the column boundaries 0..columns and the row boundaries 0..rows,
\* each between 1 and 5 from the edge of the table on both opposite sides,
\* with or without the grid; with crop marks disabled no line lies outside
\* the table, with or without the grid.
CropMarksEveryBoundary ==
    rpc = "returned" =>
        /\ CropTicks = IF crop_marks THEN BoundaryTicks ELSE {}
        /\ \A m \in Range(drawing.lines) :
              (m.kind = "line" /\ m \notin CropTicks) =>
                  /\ TableLeft <= m.x1 /\ m.x1 <= m.x2 /\ m.x2 <= TableRight
                  /\ TableTop <= m.y1 /\ m.y1 <= m.y2 /\ m.y2 <= TableBottom

CropMarksEveryBoundaryWitness ==
    /\ rpc = "returned"
    /\ crop_marks /\ ~grid
    /\ width = DefaultWidth /\ height = DefaultHeight
    /\ Cardinality(CropTicks) = 2 * (width + 1) + 2 * (height + 1)
    /\ Line(TableRight, TableBottom + 1 * U, TableRight, TableBottom + 5 * U)
          \in CropTicks

----------------------------------------------------------------------------
(* The two sides of a page *)

OtherMode == IF mode = "qr" THEN "title" ELSE "qr"

\* the other side of the page that has been drawn
OtherSide ==
    render_svg([k \in 1..ncells |-> k], width, height, grid, crop_marks,
               OtherMode, <<1, "b">>)

\* the centre of what a drawing shows of a card: a code is placed by its
\* top left corner, the texts of a title by the centre of the cell
CentreOf(card, md) ==
    IF md = "qr"
    THEN <<card.x + card.elems[1].size \div 2,
           card.y + card.elems[1].size \div 2>>
    ELSE <<card.x, card.y>>

CellCentre(col, row) ==
    <<TableLeft + ((2 * col + 1) * side_mm) \div 2,
      TableTop + ((2 * row + 1) * side_mm) \div 2>>

\* C22: for every card of a page the centre of its cell on the side drawn
\* and the centre of its cell on the other side have x coordinates that sum
\* to the page width 210 and equal y coordinates; the centre is the centre
\* of a cell of the columns x rows grid, and no two cards of a side have the
\* same one.
MirroredCentres ==
    rpc = "returned" =>
        \A k \in 1..ncells :
            LET a == CentreOf(drawing.cards[k], mode)
                b == CentreOf(OtherSide.cards[k], OtherMode)
            IN  /\ a[1] + b[1] = 210 * U
                /\ a[2] = b[2]
                /\ \E col \in 0..(width - 1), row \in 0..(height - 1) :
                      a = CellCentre(col, row)
                /\ \A j \in 1..ncells :
                      j # k => CentreOf(drawing.cards[j], mode) # a

MirroredCentresWitness ==
    /\ rpc = "returned"
    /\ mode = "qr"
    /\ width = 2
    /\ ncells >= 3
    /\ CentreOf(drawing.cards[1], mode) = CellCentre(1, 0)
    /\ CentreOf(OtherSide.cards[1], OtherMode) = CellCentre(0, 0)
    /\ CentreOf(drawing.cards[3], mode) = CellCentre(1, 1)

----------------------------------------------------------------------------
(* Texts of three words or more *)

\* at least 3 words, none empty: single spaces between the words and no
\* space at either end
CleanWords == Len(words) >= 3 /\ \A k \in 1..Len(words) : words[k] # <<>>

\* C23: for a text of length 24 or more made of at least 3 non-empty words
\* separated by single spaces, two non-empty lines are returned: some split
\* index in 1..wordCount-2 has an imbalance strictly below the count of
\* non-space characters, and the split returned is one of those.
TwoNonEmptyLines ==
    (Searched /\ CleanWords) =>
        /\ Len(lines) = 2
        /\ lines[1] # <<>> /\ lines[2] # <<>>
        /\ \E i \in LoopSplits(words) :
              /\ Imbalance(SplitAt(words, i)) < char_count(words)
              /\ lines = SplitAt(words, i)

TwoNonEmptyLinesWitness ==
    /\ Searched /\ CleanWords
    /\ Len(words) = 3
    /\ Len(words[1]) = 1 /\ Len(words[3]) = 24
    /\ lines = SplitAt(words, 1)

----------------------------------------------------------------------------
(* Documents of an earlier run *)

\* C24: every document handed to the merge was written by the converter in
\* this run, and no document left by an earlier run stands for a page side
\* whose existence test has passed while the converter wrote nothing.
MergedFromThisRun ==
    /\ \A k \in 1..Len(merged) : merged[k].origin = "fresh"
    /\ \A f \in observed : pdf[f] = "stale" => f \in pending

====
